---- MODULE Spec2Model ----
(***************************************************************************)
(* Model of the dingo execution core (pkg/dingo/command.go): the           *)
(* remoteScript execution specification with Run / Output / SmartOutput /  *)
(* SetStdio / Cmd, and the remoteShell driver's Start.                     *)
(*                                                                         *)
(* A Go string is modelled by its strings.Split(s, "\n") image: a          *)
(* non-empty sequence of lines, each line a sequence of characters.  The   *)
(* empty string is the one-element sequence holding the empty line.        *)
(* io.Writer values are modelled by their identity ("nil", a caller's      *)
(* writer, or a call's private bytes.Buffer); what a writer received is    *)
(* kept in content.  error values are records [msg, id]; id tells apart    *)
(* two values made by separate errors.New calls with the same text.        *)
(***************************************************************************)
EXTENDS Integers, Sequences, FiniteSets, TLC

\* ---------------------------------------------------------------- bounds
MaxLines == 2      \* longest script body, in lines, that Cmd may build
MaxErrs == 2       \* errors.New values that Cmd may allocate in one run

\* ------------------------------------------------------------ Go strings
EmptyStr == << <<>> >>

\* strings.TrimSpace on one line: drop leading, then trailing, spaces
RECURSIVE TrimLeft(_)
TrimLeft(l) ==
    IF l = <<>> THEN <<>>
    ELSE IF Head(l) = " " THEN TrimLeft(Tail(l)) ELSE l

RECURSIVE TrimRight(_)
TrimRight(l) ==
    IF l = <<>> THEN <<>>
    ELSE IF l[Len(l)] = " " THEN TrimRight(SubSeq(l, 1, Len(l) - 1)) ELSE l

TrimSpace_None(l) == l

TrimSpace(l) == TrimRight(TrimLeft(l))

JoinNL_NoSeparator(a, b) ==
    SubSeq(a, 1, Len(a) - 1) \o <<a[Len(a)] \o b[1]>> \o Tail(b)

\* a += "\n" + b on the split image
JoinNL(a, b) == a \o b

\* the non-blank, trimmed lines of a body in body order
RECURSIVE NonBlank(_)
NonBlank(s) ==
    IF s = <<>> THEN <<>>
    ELSE IF TrimSpace(Head(s)) = <<>> THEN NonBlank(Tail(s))
         ELSE <<TrimSpace(Head(s))>> \o NonBlank(Tail(s))

\* ---------------------------------------------------------------- values
CommandLine == 0
RawScript == 1
ScriptFile == 2
BadType == 99      \* a ScriptType outside the three constants

Threads == {1, 2}
SerialThreads == {1}

NilW == "nil"
CallerWriters == {"w1", "w2"}
PrivOut_Shared(t) == "out1"

PrivOut(t) == IF t = 1 THEN "out1" ELSE "out2"
PrivErr(t) == IF t = 1 THEN "err1" ELSE "err2"
PrivWriters == {PrivOut(t) : t \in Threads} \cup {PrivErr(t) : t \in Threads}
RealWriters == CallerWriters \cup PrivWriters
OsStdin == "os.Stdin"
OsStdout == "os.Stdout"
OsStderr == "os.Stderr"

NoErr == [msg |-> "nil", id |-> 0]
PreErr == [msg |-> "pre-existing error", id |-> 0]
CmdErr(n) == [msg |-> "Cmd() can only be used with CommandLine script type", id |-> n]
UnsupportedErr == [msg |-> "unsupported script type", id |-> 0]
SessionErr == [msg |-> "new session failed", id |-> 0]
RunErr(k) == [msg |-> "run failed", id |-> k]
ShellErr == [msg |-> "shell failed", id |-> 0]
WaitErr == [msg |-> "wait failed", id |-> 0]
PtyErr == [msg |-> "pty request failed", id |-> 0]
NotFoundErr == [msg |-> "no such file", id |-> 0]
CopyErr == [msg |-> "read failed", id |-> 0]

\* lines a caller passes to Cmd, and bodies a factory is given
LineSet == { <<" ">>, <<" ", "a">>, <<"b">> }
InitBodies == { EmptyStr, << <<"b">> >> }
FileContents == { << <<"a">>, <<"b">> >> }
Path == << <<"p">> >>
MissingPath == << <<"m">> >>
BrokenPath == << <<"x">> >>
Paths == {Path, MissingPath, BrokenPath}

ReadFile_MissingIsEmpty(path) ==
    IF path = BrokenPath THEN [err |-> CopyErr, data |-> {}]
    ELSE [err |-> NoErr, data |-> IF path = Path THEN FileContents ELSE {EmptyStr}]

\* os.Open(path) followed by io.Copy(&buffer, file) on the local file system:
\* Path names a readable file, BrokenPath one whose read fails, and no
\* other path exists
ReadFile(path) ==
    IF path = Path THEN [err |-> NoErr, data |-> FileContents]
    ELSE IF path = BrokenPath THEN [err |-> CopyErr, data |-> {}]
    ELSE [err |-> NotFoundErr, data |-> {}]

\* what the remote side does in one session.Run / session.Wait
Behaviours ==
    { [res |-> "ok",    out |-> <<"o">>, err |-> <<>>],
      [res |-> "ok",    out |-> <<"o">>, err |-> <<"e">>],
      [res |-> "err",   out |-> <<"o">>, err |-> <<"e">>],
      [res |-> "panic", out |-> <<>>,    err |-> <<>>] }

\* pseudo-terminal parameters (*TerminalConfig; isNil is the nil pointer)
NilConfig == [isNil |-> TRUE, Term |-> "", Width |-> 0, Height |-> 0, Modes |-> {}]
DefaultTerminalConfig ==
    [isNil |-> FALSE, Term |-> "xterm", Width |-> 80, Height |-> 40, Modes |-> {}]
CustomConfig ==
    [isNil |-> FALSE, Term |-> "vt100", Width |-> 100, Height |-> 30, Modes |-> {"ECHO"}]
NoPty == [term |-> "", h |-> 0, w |-> 0, modes |-> {}]

InteractiveShell == 0
NonInteractiveShell == 1

VARIABLES made, rs, sh, fr, content, nerr, cl, rfs

vars == <<made, rs, sh, fr, content, nerr, cl, rfs>>

\* the remoteScript values a program holds; a caller works on one of them:
\* all callers on the first, or (made = "pair") each caller on its own
Specs == {1, 2}
HoldsScript == made \in {"script", "pair", "race"}
Obj(t) == IF made = "pair" THEN t ELSE 1
R(t) == rs[Obj(t)]

\* the remoteScript struct literal
MkScript(c, ty, body, path, e) ==
    [client |-> c, scriptType |-> ty, script |-> body, scriptFile |-> path,
     err |-> e, stdout |-> NilW, stderr |-> NilW]

NoPrev == [valid |-> FALSE, op |-> "none", log |-> <<>>, bytes |-> <<>>,
           err |-> NoErr, pre |-> MkScript("nil", CommandLine, EmptyStr, EmptyStr, NoErr)]

\* the remoteShell struct literal
MkShell(c, ty, pty, tc) ==
    [client |-> c, shellType |-> ty, requestPty |-> pty, terminalConfig |-> tc,
     stdin |-> NilW, stdout |-> NilW, stderr |-> NilW]

\* client.Shell / QuickShell, client.InteractiveShell / ShellWithCustomTerminal /
\* InteractiveShellWithDefaults, and a literal that asks for a pty with no config
InitShells ==
    { MkShell(c, NonInteractiveShell, FALSE, NilConfig) : c \in {"nil", "conn"} }
    \cup { MkShell(c, InteractiveShell, TRUE, tc) :
              c \in {"nil", "conn"}, tc \in {NilConfig, DefaultTerminalConfig, CustomConfig} }

ZeroShell == MkShell("nil", InteractiveShell, FALSE, NilConfig)

\* one caller's activation: locals of the running operation plus what the
\* caller observed of it (result, counters of collaborator calls, the
\* streams each opened session was given)
IdleFrame ==
    [status |-> "idle", op |-> "none", pc |-> "none",
     pre |-> MkScript("nil", CommandLine, EmptyStr, EmptyStr, NoErr),
     originalStdout |-> NilW, originalStderr |-> NilW,
     arg |-> EmptyStr, argIn |-> NilW, argOut |-> NilW, argErr |-> NilW, started |-> FALSE,
     concurrent |-> FALSE,
     commands |-> <<>>, cmd |-> <<>>, idx |-> 0,
     session |-> "none", sessStdin |-> <<>>, sessStdout |-> NilW, sessStderr |-> NilW,
     bound |-> <<>>,
     inFile |-> FALSE, originalScript |-> EmptyStr, originalType |-> CommandLine,
     err |-> NoErr, panicking |-> FALSE,
     retBytes |-> <<>>, retErr |-> NoErr,
     opened |-> 0, closed |-> 0, reads |-> 0,
     ran |-> <<>>, failed |-> 0, emOut |-> <<>>, emErr |-> <<>>,
     log |-> <<>>, calls |-> <<>>, pty |-> NoPty, preSh |-> ZeroShell, prev |-> NoPrev]

InitScripts ==
    { MkScript(c, ty, b, EmptyStr, e) :
        c \in {"nil", "conn"}, ty \in {CommandLine, RawScript, BadType},
        b \in InitBodies, e \in {NoErr, PreErr} }
    \cup
    { MkScript(c, ScriptFile, b, f, e) :
        c \in {"nil", "conn"}, b \in InitBodies, f \in Paths, e \in {NoErr, PreErr} }

ZeroScript == MkScript("nil", CommandLine, EmptyStr, EmptyStr, NoErr)

\* ----------------------------------------------------------------- client
StatusConnected == "connected"
StatusDisconnected == "disconnected"

SftpCloseErr == [msg |-> "SFTP close error", id |-> 0]
SshCloseErr == [msg |-> "SSH close error", id |-> 0]
SshNilErr == [msg |-> "SSH client is nil", id |-> 0]
NewClientErr == [msg |-> "sftp.NewClient failed", id |-> 0]

\* &SftpConfig{}
ZeroSftpConfig == [MaxPacket |-> 0, UseFstat |-> FALSE]

\* the option functions: each assigns one field of the configuration
WithMaxPacket(size) == [field |-> "MaxPacket", val |-> size]
WithFstat(enabled) == [field |-> "UseFstat", val |-> enabled]

\* argument lists a caller passes to FileSystem
OptionLists ==
    { <<>>, <<WithMaxPacket(65536), WithFstat(TRUE), WithMaxPacket(1024)>> }

\* opt(config)
ApplyOption(config, opt) ==
    IF opt.field = "MaxPacket" THEN [config EXCEPT !.MaxPacket = opt.val]
    ELSE [config EXCEPT !.UseFstat = opt.val]

\* for _, opt := range opts { opt(config) }
RECURSIVE ApplyOpts(_, _)
ApplyOpts(config, opts) ==
    IF opts = <<>> THEN config
    ELSE ApplyOpts(ApplyOption(config, Head(opts)), Tail(opts))

FileSystemConfig_Zero(opts) == ZeroSftpConfig

\* FileSystem: the configuration every handle it returns is given
FileSystemConfig(opts) == ApplyOpts(ZeroSftpConfig, opts)

\* the fields of a client
ClientFields(c) == [sshClient |-> c.sshClient, sftpClient |-> c.sftpClient, status |-> c.status]

\* newClient(sshClient, config); next to the fields: how often each
\* underlying connection was closed and created so far, whether Close() was
\* ever called, whether a handle's Close() closed the SFTP client, and what the caller
\* saw of the last operation (fields before it, collaborator calls in
\* order and what each answered, the errors collected, the value returned)
newClient(sshClient) ==
    [sshClient |-> sshClient, sftpClient |-> "nil", status |-> StatusConnected,
     sftpCloses |-> 0, sshCloses |-> 0, sftpMade |-> 0, everClosed |-> FALSE,
     handleClosed |-> FALSE, op |-> "none",
     pre |-> [sshClient |-> sshClient, sftpClient |-> "nil", status |-> StatusConnected],
     calls |-> <<>>, answers |-> <<>>, merr |-> <<>>, ret |-> NoErr,
     retStatus |-> "none", opts |-> <<>>]

\* a remoteFileSystem: client, sftp, err, and what the caller saw of the
\* last operation on it; NoHandle stands for no handle made yet
MkHandle(client, sftp, config, err) ==
    [exists |-> TRUE, client |-> client, sftp |-> sftp, config |-> config, err |-> err,
     op |-> "none", preErr |-> err, calls |-> <<>>, ret |-> NoErr, data |-> "nil"]
NoHandle == [MkHandle("nil", "nil", ZeroSftpConfig, NoErr) EXCEPT !.exists = FALSE]

\* the caller holds one object: an execution specification or a shell
Init ==
    /\ \/ /\ made = "script" /\ sh = ZeroShell
          /\ \E r \in InitScripts : rs = [o \in Specs |-> IF o = 1 THEN r ELSE ZeroScript]
       \/ /\ made = "shell" /\ sh \in InitShells
          /\ rs = [o \in Specs |-> ZeroScript]
    /\ fr = [t \in Threads |-> IdleFrame]
    /\ content = [w \in RealWriters |-> <<>>]
    /\ nerr = 0
    /\ cl = newClient("nil") /\ rfs = NoHandle

\* no public operation of any caller is between its call and its exit
Quiet == \A t \in Threads : fr[t].status # "running"

\* writing bytes to an io.Writer; a nil session stream discards them
WriteTo(c, w, bytes) ==
    IF w \in RealWriters THEN [c EXCEPT ![w] = @ \o bytes] ELSE c

\* what the caller's writers received is observed per operation
FreshContent(t) ==
    [w \in RealWriters |->
        IF w \in CallerWriters \cup {PrivOut(t), PrivErr(t)} THEN <<>> ELSE content[w]]

\* the frame a caller starts an operation with
StartFrame(t, o, p) ==
    [IdleFrame EXCEPT !.status = "running", !.op = o, !.pc = p, !.pre = R(t), !.preSh = sh,
                      !.concurrent = (made = "race"
                                      /\ \E u \in Threads \ {t} : fr[u].status = "running"),
                      !.started = fr[t].started
                                  \/ (fr[t].op = "Start" /\ fr[t].status = "returned"),
                      !.prev = IF made # "pair" /\ fr[t].status = "returned" /\ fr[t].op = o
                                  /\ o \in {"Output", "SmartOutput"}
                               THEN [valid |-> TRUE, op |-> o, log |-> fr[t].log,
                                     bytes |-> fr[t].retBytes, err |-> fr[t].retErr,
                                     pre |-> fr[t].pre]
                               ELSE NoPrev]

\* ------------------------------------------------------ SetStdio and Cmd
SetStdioFields_Swapped(r, stdout, stderr) == [r EXCEPT !.stdout = stderr, !.stderr = stdout]

\* rs.stdout = stdout; rs.stderr = stderr
SetStdioFields(r, stdout, stderr) == [r EXCEPT !.stdout = stdout, !.stderr = stderr]

SetStdio(t, stdout, stderr) ==
    /\ HoldsScript
    /\ fr[t].status # "running"
    /\ rs' = [rs EXCEPT ![Obj(t)] = SetStdioFields(R(t), stdout, stderr)]
    /\ fr' = [fr EXCEPT ![t] = [StartFrame(t, "SetStdio", "none") EXCEPT
                                   !.status = "returned",
                                   !.argOut = stdout, !.argErr = stderr]]
    /\ content' = FreshContent(t)
    /\ UNCHANGED <<cl, rfs, made, sh, nerr>>

CmdReject_Append(r, cmd, n) == [r EXCEPT !.script = JoinNL(@, cmd)]

\* the else branch of Cmd: the body is kept and rs.err is assigned
CmdReject(r, cmd, n) == [r EXCEPT !.err = CmdErr(n)]

CmdAppend_Clear(r, cmd, n) ==
    IF r.scriptType = CommandLine
    THEN IF r.script = EmptyStr
         THEN [r EXCEPT !.script = cmd, !.err = NoErr]
         ELSE [r EXCEPT !.script = JoinNL(@, cmd), !.err = NoErr]
    ELSE [r EXCEPT !.err = CmdErr(n)]

CmdAppend(r, cmd, n) ==
    IF r.scriptType = CommandLine
    THEN IF r.script = EmptyStr
         THEN [r EXCEPT !.script = cmd]
         ELSE [r EXCEPT !.script = JoinNL(@, cmd)]
    ELSE CmdReject(r, cmd, n)

Cmd(t, cmd) ==
    /\ HoldsScript
    /\ fr[t].status # "running"
    /\ R(t).scriptType = CommandLine => Len(R(t).script) + Len(cmd) <= MaxLines
    /\ R(t).scriptType # CommandLine => nerr < MaxErrs
    /\ rs' = [rs EXCEPT ![Obj(t)] = CmdAppend(R(t), cmd, nerr + 1)]
    /\ nerr' = IF R(t).scriptType = CommandLine THEN nerr ELSE nerr + 1
    /\ fr' = [fr EXCEPT ![t] = [StartFrame(t, "Cmd", "none") EXCEPT
                                   !.status = "returned", !.arg = cmd]]
    /\ content' = FreshContent(t)
    /\ UNCHANGED <<cl, rfs, made, sh>>

\* the caller's writers are observed per operation; a buffer that a
\* finished capturing call owned is garbage once another operation starts
ResetCallers(c) == [w \in RealWriters |-> IF w \in CallerWriters THEN <<>> ELSE c[w]]

\* var out bytes.Buffer: a zero-value buffer for this call
NewBuffer_Reuse(c, w) == c

NewBuffer(c, w) == [c EXCEPT ![w] = <<>>]

\* -------------------------------------------------------------------- Run
\* a caller invokes rs.Run()
CallRun(t) ==
    /\ HoldsScript
    /\ fr[t].status # "running"
    /\ fr' = [fr EXCEPT ![t] = StartFrame(t, "Run", "Run")]
    /\ content' = FreshContent(t)
    /\ UNCHANGED <<cl, rfs, made, rs, sh, nerr>>

Strategy_DefaultCommands(ty) ==
    IF ty = RawScript THEN "runScript"
    ELSE IF ty = ScriptFile THEN "runScriptFile"
    ELSE "runCommands"

\* the switch of Run(): a strategy per known script type, else the
\* unsupported-type return
Strategy(ty) ==
    IF ty = CommandLine THEN "runCommands"
    ELSE IF ty = RawScript THEN "runScript"
    ELSE IF ty = ScriptFile THEN "runScriptFile"
    ELSE "RunReturn"

\* Run(): the deferred-error check and the switch on scriptType
RunDispatch_NoErrCheck(r) ==
    IF r.scriptType = CommandLine THEN "runCommands"
    ELSE IF r.scriptType = RawScript THEN "runScript"
    ELSE IF r.scriptType = ScriptFile THEN "runScriptFile"
    ELSE "RunReturn"

RunDispatch(r) ==
    IF r.err # NoErr THEN "RunReturn" ELSE Strategy(r.scriptType)

RunEnter(t) ==
    /\ fr[t].status = "running" /\ fr[t].pc = "Run"
    /\ fr' = [fr EXCEPT ![t].pc = RunDispatch(R(t)),
                        ![t].err = IF R(t).err # NoErr THEN R(t).err
                                   ELSE IF RunDispatch(R(t)) = "RunReturn" THEN UnsupportedErr
                                   ELSE NoErr,
                        ![t].commands = IF RunDispatch(R(t)) = "runCommands" THEN R(t).script ELSE <<>>]
    /\ UNCHANGED <<cl, rfs, made, rs, sh, content, nerr>>

\* runCommands: one iteration of the loop over strings.Split(rs.script, "\n")
RunCommandsStep(t) ==
    /\ fr[t].status = "running" /\ fr[t].pc = "runCommands"
    /\ IF fr[t].commands = <<>>
       THEN fr' = [fr EXCEPT ![t].err = NoErr, ![t].pc = "RunReturn"]
       ELSE LET c == TrimSpace(Head(fr[t].commands)) IN
            IF c = <<>>
            THEN fr' = [fr EXCEPT ![t].commands = Tail(@)]
            ELSE fr' = [fr EXCEPT ![t].commands = Tail(@), ![t].cmd = c,
                                  ![t].idx = @ + 1, ![t].pc = "runSingleCommand"]
    /\ UNCHANGED <<cl, rfs, made, rs, sh, content, nerr>>

\* rs.client.NewSession(): a nil *ssh.Client panics, a live one answers
NewSessionOutcomes(r) == IF r.client = "nil" THEN {"panic"} ELSE {"ok", "err"}

AfterNoSession_NextLine(f, oc) ==
    IF oc = "panic" THEN "Unwind"
    ELSE IF f.inFile THEN "restoreScript"
    ELSE IF f.pc = "runSingleCommand" THEN "runCommands" ELSE "RunReturn"

\* where a strategy goes when NewSession did not yield a session
AfterNoSession(f, oc) ==
    IF oc = "panic" THEN "Unwind"
    ELSE IF f.inFile THEN "restoreScript" ELSE "RunReturn"

\* runSingleCommand: open a session and bind rs.stdout / rs.stderr to it
RunSingleCommandOpen(t) ==
    /\ fr[t].status = "running" /\ fr[t].pc = "runSingleCommand"
    /\ \E oc \in NewSessionOutcomes(R(t)) :
         fr' = [fr EXCEPT ![t] =
                  IF oc = "ok"
                  THEN [@ EXCEPT !.session = "open", !.opened = @ + 1,
                                 !.sessStdout = R(t).stdout, !.sessStderr = R(t).stderr,
                                 !.bound = Append(@, [stdin |-> <<>>, stdout |-> R(t).stdout,
                                                      stderr |-> R(t).stderr]),
                                 !.calls = Append(@, "NewSession"),
                                 !.log = Append(@, "open"), !.pc = "sessionRun"]
                  ELSE [@ EXCEPT !.err = IF oc = "err" THEN SessionErr ELSE @,
                                 !.panicking = (oc = "panic"),
                                 !.calls = Append(@, "NewSession"),
                                 !.log = Append(@, oc), !.pc = AfterNoSession(fr[t], oc)]]
    /\ UNCHANGED <<cl, rfs, made, rs, sh, content, nerr>>

\* the remote side ran: its bytes reach the session's streams
Emit(f, b) ==
    [f EXCEPT !.emOut = @ \o b.out, !.emErr = @ \o b.err, !.log = Append(@, b),
              !.panicking = (b.res = "panic")]

\* session.Run(cmd)
SessionRun(t) ==
    /\ fr[t].status = "running" /\ fr[t].pc = "sessionRun"
    /\ \E b \in Behaviours :
         /\ content' = WriteTo(WriteTo(content, fr[t].sessStdout, b.out), fr[t].sessStderr, b.err)
         /\ fr' = [fr EXCEPT ![t] =
                     [Emit(@, b) EXCEPT !.ran = Append(@, fr[t].cmd),
                                        !.calls = Append(@, "Run"),
                                        !.err = IF b.res = "err" THEN RunErr(fr[t].idx) ELSE NoErr,
                                        !.failed = IF b.res = "err" /\ @ = 0 THEN fr[t].idx ELSE @,
                                        !.pc = "singleClose"]]
    /\ UNCHANGED <<cl, rfs, made, rs, sh, nerr>>

\* defer session.Close()
CloseSession_Leak(f) == [f EXCEPT !.calls = Append(@, "Close")]

CloseSession(f) ==
    [f EXCEPT !.session = "closed", !.closed = @ + 1, !.calls = Append(@, "Close")]

\* runCommands after runSingleCommand: if err != nil { return err }
AfterSingle_Continue(f) == IF f.panicking THEN "Unwind" ELSE "runCommands"

AfterSingle(f) ==
    IF f.panicking THEN "Unwind"
    ELSE IF f.err # NoErr THEN "RunReturn" ELSE "runCommands"

\* runSingleCommand returns (or unwinds) through its deferred Close
SingleClose(t) ==
    /\ fr[t].status = "running" /\ fr[t].pc = "singleClose"
    /\ fr' = [fr EXCEPT ![t] = [CloseSession(@) EXCEPT !.pc = AfterSingle(fr[t])]]
    /\ UNCHANGED <<cl, rfs, made, rs, sh, content, nerr>>

\* runScript: open a session, bind stdin to the script and the two sinks
RunScriptOpen(t) ==
    /\ fr[t].status = "running" /\ fr[t].pc = "runScript"
    /\ \E oc \in NewSessionOutcomes(R(t)) :
         fr' = [fr EXCEPT ![t] =
                  IF oc = "ok"
                  THEN [@ EXCEPT !.session = "open", !.opened = @ + 1,
                                 !.sessStdin = R(t).script,
                                 !.sessStdout = R(t).stdout, !.sessStderr = R(t).stderr,
                                 !.bound = Append(@, [stdin |-> R(t).script, stdout |-> R(t).stdout,
                                                      stderr |-> R(t).stderr]),
                                 !.calls = Append(@, "NewSession"),
                                 !.log = Append(@, "open"), !.pc = "sessionShell"]
                  ELSE [@ EXCEPT !.err = IF oc = "err" THEN SessionErr ELSE @,
                                 !.panicking = (oc = "panic"),
                                 !.calls = Append(@, "NewSession"),
                                 !.log = Append(@, oc), !.pc = AfterNoSession(fr[t], oc)]]
    /\ UNCHANGED <<cl, rfs, made, rs, sh, content, nerr>>

\* runScript after session.Shell(): if err != nil { return err }
AfterShell_IgnoreError(oc) == IF oc = "panic" THEN "scriptClose" ELSE "sessionWait"

AfterShell(oc) == IF oc = "ok" THEN "sessionWait" ELSE "scriptClose"

\* session.Shell()
SessionShell(t) ==
    /\ fr[t].status = "running" /\ fr[t].pc = "sessionShell"
    /\ \E oc \in {"ok", "err", "panic"} :
         fr' = [fr EXCEPT ![t].log = Append(@, oc),
                          ![t].calls = Append(@, "Shell"),
                          ![t].err = IF oc = "err" THEN ShellErr ELSE NoErr,
                          ![t].panicking = (oc = "panic"),
                          ![t].pc = AfterShell(oc)]
    /\ UNCHANGED <<cl, rfs, made, rs, sh, content, nerr>>

\* session.Wait()
SessionWait(t) ==
    /\ fr[t].status = "running" /\ fr[t].pc = "sessionWait"
    /\ \E b \in Behaviours :
         /\ content' = WriteTo(WriteTo(content, fr[t].sessStdout, b.out), fr[t].sessStderr, b.err)
         /\ fr' = [fr EXCEPT ![t] =
                     [Emit(@, b) EXCEPT !.ran = Append(@, fr[t].sessStdin),
                                        !.calls = Append(@, "Wait"),
                                        !.err = IF b.res = "err" THEN WaitErr ELSE NoErr,
                                        !.pc = "scriptClose"]]
    /\ UNCHANGED <<cl, rfs, made, rs, sh, nerr>>

\* runScript returns (or unwinds) through its deferred Close
ScriptClose(t) ==
    /\ fr[t].status = "running" /\ fr[t].pc = "scriptClose"
    /\ fr' = [fr EXCEPT ![t] =
                [CloseSession(@) EXCEPT !.pc = IF fr[t].panicking THEN "Unwind"
                                               ELSE IF fr[t].inFile THEN "restoreScript"
                                               ELSE "RunReturn"]]
    /\ UNCHANGED <<cl, rfs, made, rs, sh, content, nerr>>

\* rs.script = buffer.String(); rs.scriptType = RawScript
LoadScript_KeepBody(r, c) == [r EXCEPT !.scriptType = RawScript]

LoadScript(r, c) == [r EXCEPT !.script = c, !.scriptType = RawScript]

\* runScriptFile up to the call of runScript: os.Open, io.Copy, then the
\* temporary switch of rs.script / rs.scriptType
RunScriptFileRead(t) ==
    /\ fr[t].status = "running" /\ fr[t].pc = "runScriptFile"
    /\ LET f == ReadFile(R(t).scriptFile) IN
         IF f.err # NoErr
         THEN /\ fr' = [fr EXCEPT ![t].reads = @ + 1, ![t].err = f.err,
                                  ![t].log = Append(@, f.err.msg), ![t].pc = "RunReturn"]
              /\ rs' = rs
         ELSE \E c \in f.data :
              /\ fr' = [fr EXCEPT ![t].reads = @ + 1, ![t].log = Append(@, c),
                                  ![t].originalScript = R(t).script,
                                  ![t].originalType = R(t).scriptType,
                                  ![t].inFile = TRUE, ![t].pc = "runScript"]
              /\ rs' = [rs EXCEPT ![Obj(t)] = LoadScript(R(t), c)]
    /\ UNCHANGED <<cl, rfs, made, sh, content, nerr>>

\* runScriptFile after runScript returned: "Restore original values"
RestoreScript_ScriptOnly(r, f) == [r EXCEPT !.script = f.originalScript]

RestoreScript(r, f) == [r EXCEPT !.script = f.originalScript, !.scriptType = f.originalType]

RunScriptFileRestore(t) ==
    /\ fr[t].status = "running" /\ fr[t].pc = "restoreScript"
    /\ rs' = [rs EXCEPT ![Obj(t)] = RestoreScript(R(t), fr[t])]
    /\ fr' = [fr EXCEPT ![t].inFile = FALSE, ![t].pc = "RunReturn"]
    /\ UNCHANGED <<cl, rfs, made, sh, content, nerr>>

\* Run() hands its error to a direct caller
RunReturn(t) ==
    /\ fr[t].status = "running" /\ fr[t].pc = "RunReturn" /\ fr[t].op = "Run"
    /\ fr' = [fr EXCEPT ![t].status = "returned", ![t].retErr = fr[t].err, ![t].pc = "none"]
    /\ UNCHANGED <<cl, rfs, made, rs, sh, content, nerr>>

\* ----------------------------------------------------------------- Output
EarlyReturn_Never(r) == FALSE

\* "Early return if there's already an error", first statement of Output()
\* and of SmartOutput()
EarlyReturn(r) == r.err # NoErr

OutputEnter_KeepSink(r, t) == r

\* Output() up to its call of Run
OutputEnter(r, t) == [r EXCEPT !.stdout = PrivOut(t)]

Output(t) ==
    /\ HoldsScript
    /\ fr[t].status # "running"
    /\ IF EarlyReturn(R(t))
       THEN /\ fr' = [fr EXCEPT ![t] = [StartFrame(t, "Output", "none") EXCEPT
                                          !.status = "returned", !.retErr = R(t).err]]
            /\ rs' = rs
            /\ content' = ResetCallers(content)
       ELSE /\ fr' = [fr EXCEPT ![t] = [StartFrame(t, "Output", "Run") EXCEPT
                                          !.originalStdout = R(t).stdout]]
            /\ rs' = [rs EXCEPT ![Obj(t)] = OutputEnter(R(t), t)]
            /\ content' = NewBuffer(ResetCallers(content), PrivOut(t))
    /\ UNCHANGED <<cl, rfs, made, sh, nerr>>

OutputRestore_None(r, f) == r

\* the deferred func of Output
OutputRestore(r, f) == [r EXCEPT !.stdout = f.originalStdout]

\* return out.Bytes(), err
OutputReturn(t) ==
    /\ fr[t].status = "running" /\ fr[t].pc = "RunReturn" /\ fr[t].op = "Output"
    /\ fr' = [fr EXCEPT ![t].status = "returned", ![t].pc = "none",
                        ![t].retBytes = content[PrivOut(t)], ![t].retErr = fr[t].err]
    /\ rs' = [rs EXCEPT ![Obj(t)] = OutputRestore(R(t), fr[t])]
    /\ UNCHANGED <<cl, rfs, made, sh, content, nerr>>

\* ------------------------------------------------------------ SmartOutput
SmartOutputEnter(r, t) == [r EXCEPT !.stdout = PrivOut(t), !.stderr = PrivErr(t)]

SmartOutput(t) ==
    /\ HoldsScript
    /\ fr[t].status # "running"
    /\ IF EarlyReturn(R(t))
       THEN /\ fr' = [fr EXCEPT ![t] = [StartFrame(t, "SmartOutput", "none") EXCEPT
                                          !.status = "returned", !.retErr = R(t).err]]
            /\ rs' = rs
            /\ content' = ResetCallers(content)
       ELSE /\ fr' = [fr EXCEPT ![t] = [StartFrame(t, "SmartOutput", "Run") EXCEPT
                                          !.originalStdout = R(t).stdout,
                                          !.originalStderr = R(t).stderr]]
            /\ rs' = [rs EXCEPT ![Obj(t)] = SmartOutputEnter(R(t), t)]
            /\ content' = NewBuffer(NewBuffer(ResetCallers(content), PrivOut(t)), PrivErr(t))
    /\ UNCHANGED <<cl, rfs, made, sh, nerr>>

\* the deferred func of SmartOutput
SmartOutputRestore_StdoutOnly(r, f) == [r EXCEPT !.stdout = f.originalStdout]

SmartOutputRestore(r, f) ==
    [r EXCEPT !.stdout = f.originalStdout, !.stderr = f.originalStderr]

\* the buffer SmartOutput returns: stderr on failure, stdout on success
SmartOutputBytes_Stdout(c, err, t) == c[PrivOut(t)]

SmartOutputBytes(c, err, t) == IF err # NoErr THEN c[PrivErr(t)] ELSE c[PrivOut(t)]

SmartOutputReturn(t) ==
    /\ fr[t].status = "running" /\ fr[t].pc = "RunReturn" /\ fr[t].op = "SmartOutput"
    /\ fr' = [fr EXCEPT ![t].status = "returned", ![t].pc = "none",
                        ![t].retBytes = SmartOutputBytes(content, fr[t].err, t),
                        ![t].retErr = fr[t].err]
    /\ rs' = [rs EXCEPT ![Obj(t)] = SmartOutputRestore(R(t), fr[t])]
    /\ UNCHANGED <<cl, rfs, made, sh, content, nerr>>

\* ------------------------------------------------------------------ panic
\* a panic leaves the operation: the deferred funcs of the frames between
\* the panic and the caller run, nothing else does
UnwindScript_NoDefer(r, f) == r

UnwindScript(r, f) ==
    IF f.op = "Output" THEN OutputRestore(r, f)
    ELSE IF f.op = "SmartOutput" THEN SmartOutputRestore(r, f)
    ELSE r

Unwind(t) ==
    /\ fr[t].status = "running" /\ fr[t].pc = "Unwind"
    /\ rs' = [rs EXCEPT ![Obj(t)] = UnwindScript(R(t), fr[t])]
    /\ fr' = [fr EXCEPT ![t].status = "panicked", ![t].pc = "none"]
    /\ UNCHANGED <<cl, rfs, made, sh, content, nerr>>

\* ------------------------------------------------------------ remoteShell
ShellSetStdio(t, stdin, stdout, stderr) ==
    /\ made = "shell"
    /\ fr[t].status # "running"
    /\ sh' = [sh EXCEPT !.stdin = stdin, !.stdout = stdout, !.stderr = stderr]
    /\ fr' = [fr EXCEPT ![t] = [StartFrame(t, "ShellSetStdio", "none") EXCEPT
                                   !.status = "returned", !.argIn = stdin,
                                   !.argOut = stdout, !.argErr = stderr]]
    /\ UNCHANGED <<cl, rfs, made, rs, content, nerr>>

SetupStreams_Joint(s) ==
    IF s.stdin = NilW \/ s.stdout = NilW \/ s.stderr = NilW
    THEN [stdin |-> OsStdin, stdout |-> OsStdout, stderr |-> OsStderr]
    ELSE [stdin |-> s.stdin, stdout |-> s.stdout, stderr |-> s.stderr]

\* setupStreams: the caller's stream, or the process stream when it is nil
SetupStreams(s) ==
    [stdin  |-> IF s.stdin = NilW THEN OsStdin ELSE s.stdin,
     stdout |-> IF s.stdout = NilW THEN OsStdout ELSE s.stdout,
     stderr |-> IF s.stderr = NilW THEN OsStderr ELSE s.stderr]

PtyRequest_Swapped(s) ==
    LET tc == IF s.terminalConfig.isNil THEN DefaultTerminalConfig ELSE s.terminalConfig
    IN  [term |-> tc.Term, h |-> tc.Width, w |-> tc.Height, modes |-> tc.Modes]

\* requestPseudoTerminal: the arguments of session.RequestPty
PtyRequest(s) ==
    LET tc == IF s.terminalConfig.isNil THEN DefaultTerminalConfig ELSE s.terminalConfig
    IN  [term |-> tc.Term, h |-> tc.Height, w |-> tc.Width, modes |-> tc.Modes]

\* a caller invokes Start(command)
CallStart(t, command) ==
    /\ made = "shell"
    /\ fr[t].status # "running"
    /\ fr' = [fr EXCEPT ![t] = [StartFrame(t, "Start", "shOpen") EXCEPT !.cmd = command]]
    /\ UNCHANGED <<cl, rfs, made, rs, sh, content, nerr>>

\* the step of Start that follows the stream set-up or the pty request
AfterPty(f) == IF f.cmd # EmptyStr THEN "shCmd" ELSE "shShell"

AfterStreams_AlwaysPty(s, f) == "shPty"

\* if rs.requestPty { requestPseudoTerminal } comes right after setupStreams
AfterStreams(s, f) == IF s.requestPty THEN "shPty" ELSE AfterPty(f)

\* Start: rs.client.NewSession() and setupStreams
ShellOpen(t) ==
    /\ fr[t].status = "running" /\ fr[t].pc = "shOpen"
    /\ \E oc \in NewSessionOutcomes(sh) :
         fr' = [fr EXCEPT ![t] =
                  IF oc = "ok"
                  THEN [@ EXCEPT !.session = "open", !.opened = @ + 1,
                                 !.sessStdin = SetupStreams(sh).stdin,
                                 !.sessStdout = SetupStreams(sh).stdout,
                                 !.sessStderr = SetupStreams(sh).stderr,
                                 !.calls = Append(@, "NewSession"),
                                 !.log = Append(@, "open"), !.pc = AfterStreams(sh, fr[t])]
                  ELSE [@ EXCEPT !.err = IF oc = "err" THEN SessionErr ELSE @,
                                 !.panicking = (oc = "panic"),
                                 !.calls = Append(@, "NewSession"),
                                 !.log = Append(@, oc),
                                 !.pc = IF oc = "panic" THEN "Unwind" ELSE "StartReturn"]]
    /\ UNCHANGED <<cl, rfs, made, rs, sh, content, nerr>>

PtyNext_IgnoreError(oc, f) == IF oc = "panic" THEN "shClose" ELSE AfterPty(f)

\* if err := rs.requestPseudoTerminal(session); err != nil { return err }
PtyNext(oc, f) == IF oc = "ok" THEN AfterPty(f) ELSE "shClose"

\* Start: if rs.requestPty, requestPseudoTerminal(session)
ShellPty(t) ==
    /\ fr[t].status = "running" /\ fr[t].pc = "shPty"
    /\ \E oc \in {"ok", "err", "panic"} :
         fr' = [fr EXCEPT ![t].pty = PtyRequest(sh),
                          ![t].calls = Append(@, "RequestPty"),
                          ![t].log = Append(@, oc),
                          ![t].err = IF oc = "err" THEN PtyErr ELSE NoErr,
                          ![t].panicking = (oc = "panic"),
                          ![t].pc = PtyNext(oc, fr[t])]
    /\ UNCHANGED <<cl, rfs, made, rs, sh, content, nerr>>

CmdNext_StopOnError(oc) == IF oc = "ok" THEN "shShell" ELSE "shClose"

\* session.Run(command) is a statement of its own: whatever it returns,
\* Start goes on to session.Shell()
CmdNext(oc) == IF oc = "panic" THEN "shClose" ELSE "shShell"

\* Start: if command != "", session.Run(command); its error is dropped
ShellCmd(t) ==
    /\ fr[t].status = "running" /\ fr[t].pc = "shCmd"
    /\ \E oc \in {"ok", "err", "panic"} :
         fr' = [fr EXCEPT ![t].calls = Append(@, "Run"),
                          ![t].log = Append(@, oc),
                          ![t].ran = Append(@, fr[t].cmd),
                          ![t].panicking = (oc = "panic"),
                          ![t].pc = CmdNext(oc)]
    /\ UNCHANGED <<cl, rfs, made, rs, sh, content, nerr>>

ShellNext_IgnoreError(oc) == IF oc = "panic" THEN "shClose" ELSE "shWait"

\* if err := session.Shell(); err != nil { return err }
ShellNext(oc) == IF oc = "ok" THEN "shWait" ELSE "shClose"

\* Start: session.Shell()
ShellShell(t) ==
    /\ fr[t].status = "running" /\ fr[t].pc = "shShell"
    /\ \E oc \in {"ok", "err", "panic"} :
         fr' = [fr EXCEPT ![t].calls = Append(@, "Shell"),
                          ![t].log = Append(@, oc),
                          ![t].err = IF oc = "err" THEN ShellErr ELSE NoErr,
                          ![t].panicking = (oc = "panic"),
                          ![t].pc = ShellNext(oc)]
    /\ UNCHANGED <<cl, rfs, made, rs, sh, content, nerr>>

\* Start: return session.Wait()
ShellWait(t) ==
    /\ fr[t].status = "running" /\ fr[t].pc = "shWait"
    /\ \E oc \in {"ok", "err", "panic"} :
         fr' = [fr EXCEPT ![t].calls = Append(@, "Wait"),
                          ![t].log = Append(@, oc),
                          ![t].err = IF oc = "err" THEN WaitErr ELSE NoErr,
                          ![t].panicking = (oc = "panic"),
                          ![t].pc = "shClose"]
    /\ UNCHANGED <<cl, rfs, made, rs, sh, content, nerr>>

\* Start returns (or unwinds) through its deferred Close
ShellClose(t) ==
    /\ fr[t].status = "running" /\ fr[t].pc = "shClose"
    /\ fr' = [fr EXCEPT ![t] =
                [CloseSession(@) EXCEPT !.pc = IF fr[t].panicking THEN "Unwind"
                                               ELSE "StartReturn"]]
    /\ UNCHANGED <<cl, rfs, made, rs, sh, content, nerr>>

StartReturn(t) ==
    /\ fr[t].status = "running" /\ fr[t].pc = "StartReturn"
    /\ fr' = [fr EXCEPT ![t].status = "returned", ![t].retErr = fr[t].err, ![t].pc = "none"]
    /\ UNCHANGED <<cl, rfs, made, rs, sh, content, nerr>>

\* ------------------------------------------------------------------- spec
Streams == {NilW, "w1"}
Commands == {EmptyStr, << <<"b">> >>}

ScriptStep(t) ==
    \/ \E x \in CallerWriters \cup {NilW}, y \in CallerWriters \cup {NilW} : SetStdio(t, x, y)
    \/ \E l \in LineSet : Cmd(t, <<l>>)
    \/ CallRun(t)
    \/ RunEnter(t)
    \/ RunCommandsStep(t)
    \/ RunSingleCommandOpen(t)
    \/ SessionRun(t)
    \/ SingleClose(t)
    \/ RunScriptOpen(t)
    \/ SessionShell(t)
    \/ SessionWait(t)
    \/ ScriptClose(t)
    \/ RunScriptFileRead(t)
    \/ RunScriptFileRestore(t)
    \/ RunReturn(t)
    \/ Output(t)
    \/ OutputReturn(t)
    \/ SmartOutput(t)
    \/ SmartOutputReturn(t)

ShellStep(t) ==
    \/ \E i \in Streams, o \in Streams, e \in Streams : ShellSetStdio(t, i, o, e)
    \/ \E c \in Commands : CallStart(t, c)
    \/ ShellOpen(t)
    \/ ShellPty(t)
    \/ ShellCmd(t)
    \/ ShellShell(t)
    \/ ShellWait(t)
    \/ ShellClose(t)
    \/ StartReturn(t)

Step(t) ==
    \/ ScriptStep(t)
    \/ ShellStep(t)
    \/ Unwind(t)

Next == \E t \in SerialThreads : Step(t)

Spec == Init /\ [][Next]_vars

\* ------------------------------------------- two specifications, two callers
\* client.Command, client.Script and client.ScriptFile on one live client
ClientCommand(cmd) == MkScript("conn", CommandLine, cmd, EmptyStr, NoErr)
ClientScript(script) == MkScript("conn", RawScript, script, EmptyStr, NoErr)
ClientScriptFile(fname) == MkScript("conn", ScriptFile, EmptyStr, fname, NoErr)

\* the first caller holds a command or a script file, the second a script
InitPair ==
    /\ made = "pair" /\ sh = ZeroShell
    /\ \E a \in {ClientCommand(<< <<"b">> >>), ClientScriptFile(Path)},
             b \in {ClientScript(<< <<"b">> >>)} :
          rs = [o \in Specs |-> IF o = 1 THEN a ELSE b]
    /\ fr = [t \in Threads |-> IdleFrame]
    /\ content = [w \in RealWriters |-> <<>>]
    /\ nerr = 0
    /\ cl = newClient("nil") /\ rfs = NoHandle

\* the writer a caller passes to SetStdio on its own specification
CallerW(t) == IF t = 1 THEN "w1" ELSE "w2"

PairStep(t) ==
    \/ \E x \in {NilW, CallerW(t)} : SetStdio(t, x, NilW)
    \/ Cmd(t, << <<"b">> >>)
    \/ CallRun(t)
    \/ RunEnter(t)
    \/ RunCommandsStep(t)
    \/ RunSingleCommandOpen(t)
    \/ SessionRun(t)
    \/ SingleClose(t)
    \/ RunScriptOpen(t)
    \/ SessionShell(t)
    \/ SessionWait(t)
    \/ ScriptClose(t)
    \/ RunScriptFileRead(t)
    \/ RunScriptFileRestore(t)
    \/ RunReturn(t)
    \/ Output(t)
    \/ OutputReturn(t)
    \/ SmartOutput(t)
    \/ SmartOutputReturn(t)
    \/ Unwind(t)

NextPair == \E t \in Threads : PairStep(t)

SpecPair == InitPair /\ [][NextPair]_vars

\* ------------------------------------------- a script file next to a script
\* the first caller holds a specification of a readable file, the second a
\* script specification whose body is what the file holds; each with or
\* without a deferred error
InitEquiv ==
    /\ made = "pair" /\ sh = ZeroShell
    /\ \E c \in ReadFile(Path).data, e1 \in {NoErr, PreErr}, e2 \in {NoErr, PreErr} :
          rs = [o \in Specs |-> IF o = 1 THEN [ClientScriptFile(Path) EXCEPT !.err = e1]
                                         ELSE [ClientScript(c) EXCEPT !.err = e2]]
    /\ fr = [t \in Threads |-> IdleFrame]
    /\ content = [w \in RealWriters |-> <<>>]
    /\ nerr = 0
    /\ cl = newClient("nil") /\ rfs = NoHandle

EquivStep(t) ==
    \/ \E x \in {NilW, "w1"} : SetStdio(t, x, NilW)
    \/ CallRun(t)
    \/ RunEnter(t)
    \/ RunScriptOpen(t)
    \/ SessionShell(t)
    \/ SessionWait(t)
    \/ ScriptClose(t)
    \/ RunScriptFileRead(t)
    \/ RunScriptFileRestore(t)
    \/ RunReturn(t)
    \/ Unwind(t)

NextEquiv == \E t \in Threads : EquivStep(t)

SpecEquiv == InitEquiv /\ [][NextEquiv]_vars

\* ------------------------------------------ two callers, one specification
\* both callers hold the same specification, a one-line command whose
\* stdout is nil or a writer set before; each makes one call
InitRace ==
    /\ made = "race" /\ sh = ZeroShell
    /\ \E w \in {NilW, "w1"} :
          rs = [o \in Specs |-> SetStdioFields(ClientCommand(<< <<"b">> >>), w, NilW)]
    /\ fr = [t \in Threads |-> IdleFrame]
    /\ content = [w \in RealWriters |-> <<>>]
    /\ nerr = 0
    /\ cl = newClient("nil") /\ rfs = NoHandle

\* a caller's one call: Output() for either, or SetStdio for the second
RaceCall(t) ==
    /\ fr[t].status = "idle"
    /\ \/ Output(t)
       \/ t = 2 /\ SetStdio(t, "w2", NilW)

RaceStep(t) ==
    \/ RaceCall(t)
    \/ RunEnter(t)
    \/ RunCommandsStep(t)
    \/ RunSingleCommandOpen(t)
    \/ SessionRun(t)
    \/ SingleClose(t)
    \/ OutputReturn(t)
    \/ Unwind(t)

NextRace == \E t \in Threads : RaceStep(t)

SpecRace == InitRace /\ [][NextRace]_vars

\* ================================================================ client
MaxCloses == 3     \* closes of the SFTP client the model follows

CloseOutcomes == {"ok", "err"}

\* multierror.Append(merr, err): a nil err adds nothing
multierrorAppend(merr, e) == IF e = NoErr THEN merr ELSE merr \o <<e>>

\* (*multierror.Error).ErrorOrNil(): nil for a nil receiver or no errors
ErrorOrNil(merr) ==
    IF merr = <<>> THEN NoErr
    ELSE [msg |-> "multierror", id |-> 0, Errors |-> merr]

\* what Close() closes, in the order it closes it
CloseTargets(c) ==
    IF c.status = StatusDisconnected THEN <<>>
    ELSE (IF c.sftpClient # "nil" THEN <<"sftpClient.Close">> ELSE <<>>)
            \o (IF c.sshClient # "nil" THEN <<"sshClient.Close">> ELSE <<>>)

CloseErr(call) == IF call = "sftpClient.Close" THEN SftpCloseErr ELSE SshCloseErr

\* the closes Close() goes through when the closes answer oc[1], oc[2]
CloseCalls_StopAtFailure(targets, oc) ==
    IF Len(targets) = 2 /\ oc[1] = "err" THEN <<targets[1]>> ELSE targets

CloseCalls(targets, oc) == targets

RECURSIVE CollectErrors(_, _, _)
CollectErrors(calls, oc, i) ==
    IF i > Len(calls) THEN <<>>
    ELSE multierrorAppend(<<>>, IF oc[i] = "ok" THEN NoErr ELSE CloseErr(calls[i]))
            \o CollectErrors(calls, oc, i + 1)

CountOf(calls, call) == Cardinality({i \in 1..Len(calls) : calls[i] = call})

StatusAfterClose_Kept(c, merr) == IF merr = <<>> THEN StatusDisconnected ELSE c.status

StatusAfterClose(c, merr) == StatusDisconnected

\* client.Close()
ClientClose ==
    /\ made = "client"
    /\ \E oc \in [1..2 -> CloseOutcomes] :
        LET calls == CloseCalls(CloseTargets(cl), oc)
            merr == CollectErrors(calls, oc, 1)
        IN  /\ cl.sftpCloses + CountOf(calls, "sftpClient.Close") <= MaxCloses
            /\ cl' = [cl EXCEPT
                    !.status = IF cl.status = StatusDisconnected THEN cl.status
                               ELSE StatusAfterClose(cl, merr),
                    !.sftpCloses = @ + CountOf(calls, "sftpClient.Close"),
                    !.sshCloses = @ + CountOf(calls, "sshClient.Close"),
                    !.everClosed = TRUE,
                    !.op = "Close", !.pre = ClientFields(cl),
                    !.calls = calls, !.answers = [i \in 1..Len(calls) |-> oc[i]],
                    !.merr = merr,
                    !.ret = ErrorOrNil(merr), !.retStatus = "none", !.opts = <<>>]
    /\ UNCHANGED <<rfs, made, rs, sh, fr, content, nerr>>

\* client.Status()
ClientStatus ==
    /\ made = "client"
    /\ cl' = [cl EXCEPT !.op = "Status", !.pre = ClientFields(cl), !.calls = <<>>,
                        !.answers = <<>>, !.merr = <<>>, !.ret = NoErr, !.retStatus = cl.status,
                        !.opts = <<>>]
    /\ UNCHANGED <<rfs, made, rs, sh, fr, content, nerr>>

Seen(op) ==
    [cl EXCEPT !.op = op, !.pre = ClientFields(cl), !.calls = <<>>,
               !.answers = <<>>, !.merr = <<>>,
               !.ret = NoErr, !.retStatus = "none", !.opts = <<>>]

\* client.Command(cmd), client.Script(script), client.ScriptFile(path)
ClientMakeScript ==
    /\ made = "client"
    /\ \E k \in {"Command", "Script", "ScriptFile"} :
        /\ rs' = [rs EXCEPT ![1] =
                    IF k = "Command" THEN MkScript(cl.sshClient, CommandLine, << <<"b">> >>, EmptyStr, NoErr)
                    ELSE IF k = "Script" THEN MkScript(cl.sshClient, RawScript, << <<"b">> >>, EmptyStr, NoErr)
                    ELSE MkScript(cl.sshClient, ScriptFile, EmptyStr, Path, NoErr)]
        /\ cl' = Seen(k)
    /\ UNCHANGED <<rfs, made, sh, fr, content, nerr>>

\* client.Shell(), client.InteractiveShell(config)
ClientMakeShell ==
    /\ made = "client"
    /\ \/ /\ sh' = MkShell(cl.sshClient, NonInteractiveShell, FALSE, NilConfig)
          /\ cl' = Seen("Shell")
       \/ \E config \in {NilConfig, CustomConfig} :
            /\ sh' = MkShell(cl.sshClient, InteractiveShell, TRUE,
                             IF config = NilConfig THEN DefaultTerminalConfig ELSE config)
            /\ cl' = Seen("InteractiveShell")
    /\ UNCHANGED <<rfs, made, rs, fr, content, nerr>>

\* sftp.NewClient(c.sshClient) answers: a closed connection opens no channel
NewClientOutcomes == IF cl.sshCloses > 0 THEN {"err"} ELSE {"ok", "err"}

Cached_Never(c) == FALSE

\* FileSystem makes an SFTP client only if c.sftpClient == nil
Cached(c) == c.sftpClient # "nil"

\* client.FileSystem(opts...)
ClientFileSystem ==
    /\ made = "client"
    /\ \E opts \in OptionLists :
        LET config == FileSystemConfig(opts)
            seen == [Seen("FileSystem") EXCEPT !.opts = opts]
        IN
        IF ~Cached(cl)
        THEN IF cl.sshClient = "nil"
             THEN /\ rfs' = MkHandle(cl.sshClient, "nil", config, SshNilErr)
                  /\ cl' = seen
             ELSE \E oc \in NewClientOutcomes :
                    IF oc = "err"
                    THEN /\ rfs' = MkHandle(cl.sshClient, "nil", config, NewClientErr)
                         /\ cl' = [seen EXCEPT !.calls = <<"sftp.NewClient">>,
                                               !.answers = <<"err">>]
                    ELSE /\ rfs' = MkHandle(cl.sshClient, "sftp", config, NoErr)
                         /\ cl' = [seen EXCEPT
                                      !.calls = <<"sftp.NewClient">>, !.answers = <<"ok">>,
                                      !.sftpClient = "sftp", !.sftpMade = @ + 1]
        ELSE /\ rfs' = MkHandle(cl.sshClient, cl.sftpClient, config, NoErr)
             /\ cl' = seen
    /\ UNCHANGED <<made, rs, sh, fr, content, nerr>>

\* ------------------------------------------------------- remoteFileSystem
RfsOps == {"ReadFile", "WriteFile", "Upload", "Download", "Mkdir", "MkdirAll",
           "Remove", "RemoveDirectory", "Stat", "Lstat", "ReadDir", "Chmod",
           "Chown", "Rename", "Close"}

\* the operations that return data next to the error
DataOps == {"ReadFile", "Stat", "Lstat", "ReadDir"}

\* the calls an operation makes once past the stored-error check, in order,
\* each with the close it defers when the call succeeded ("" for none)
Plan(op) ==
    IF op = "ReadFile" THEN << <<"sftp.Open", "f.Close">>, <<"io.ReadAll", "">> >>
    ELSE IF op = "WriteFile" THEN << <<"sftp.OpenFile", "f.Close">>, <<"f.Write", "">> >>
    ELSE IF op = "Upload" THEN << <<"os.Open", "localFile.Close">>,
                                  <<"sftp.OpenFile", "remoteFile.Close">>, <<"io.Copy", "">> >>
    ELSE IF op = "Download" THEN << <<"sftp.Open", "remoteFile.Close">>,
                                    <<"os.OpenFile", "localFile.Close">>, <<"io.Copy", "">> >>
    ELSE << <<"sftp." \o op, "">> >>

\* the deferred closes of the first n calls, last deferred first
RECURSIVE Deferred(_, _)
Deferred(plan, n) ==
    IF n = 0 THEN <<>>
    ELSE (IF plan[n][2] = "" THEN <<>> ELSE <<plan[n][2]>>) \o Deferred(plan, n - 1)

\* the calls made when call number k fails (k = 0: none fails)
Performed(plan, k) ==
    LET n == IF k = 0 THEN Len(plan) ELSE k
    IN  [i \in 1..n |-> plan[i][1]] \o Deferred(plan, IF k = 0 THEN Len(plan) ELSE k - 1)

OpErr(call) == [msg |-> call \o " failed", id |-> 0]

\* what a data operation hands back: nil with the error of an open or a
\* one-call operation, what io.ReadAll had read when the read failed
DataOf(op, k) ==
    IF op \notin DataOps THEN "nil"
    ELSE IF k = 0 THEN "data"
    ELSE IF op = "ReadFile" /\ k = 2 THEN "partial"
    ELSE "nil"

\* the check every operation starts with: if rfs.err != nil { return rfs.err }
StoredErrorReturns_Never(h) == FALSE

StoredErrorReturns(h) == h.err # NoErr

\* any operation of the handle
RfsCall ==
    /\ made = "client" /\ rfs.exists
    /\ \E op \in RfsOps :
        IF StoredErrorReturns(rfs)
        THEN /\ rfs' = [rfs EXCEPT !.op = op, !.preErr = rfs.err, !.calls = <<>>,
                                   !.ret = rfs.err, !.data = "nil"]
             /\ cl' = cl
        ELSE IF op = "Close" /\ rfs.sftp = "nil"
        THEN /\ rfs' = [rfs EXCEPT !.op = op, !.preErr = rfs.err, !.calls = <<>>,
                                   !.ret = NoErr, !.data = "nil"]
             /\ cl' = cl
        ELSE \E k \in 0..Len(Plan(op)) :
             /\ op = "Close" => cl.sftpCloses < MaxCloses
             /\ rfs' = [rfs EXCEPT !.op = op, !.preErr = rfs.err,
                                   !.calls = Performed(Plan(op), k),
                                   !.ret = IF k = 0 THEN NoErr ELSE OpErr(Plan(op)[k][1]),
                                   !.data = DataOf(op, k)]
             /\ cl' = [cl EXCEPT !.sftpCloses = IF op = "Close" THEN @ + 1 ELSE @,
                                 !.handleClosed = @ \/ op = "Close"]
    /\ UNCHANGED <<made, rs, sh, fr, content, nerr>>

InitClient ==
    /\ made = "client" /\ sh = ZeroShell
    /\ rs = [o \in Specs |-> ZeroScript]
    /\ fr = [t \in Threads |-> IdleFrame]
    /\ content = [w \in RealWriters |-> <<>>]
    /\ nerr = 0
    /\ \E c \in {"nil", "conn"} : cl = newClient(c)
    /\ rfs = NoHandle

NextClient ==
    \/ ClientClose
    \/ ClientStatus
    \/ ClientMakeScript
    \/ ClientMakeShell
    \/ ClientFileSystem
    \/ RfsCall

SpecClient == InitClient /\ [][NextClient]_vars

\* ================================================================ claims
Exited(t) == fr[t].status \in {"returned", "panicked"}
Executes(t) == fr[t].op \in {"Run", "Output", "SmartOutput"}

\* C1: once Output() on a specification without a deferred error has exited
\* (returned or panicked), rs.stdout is the writer it was before the call;
\* rs.stderr is the writer it was before the call all through Output().
C1_OutputRestoresStdout ==
    \A t \in Threads :
        (fr[t].op = "Output" /\ fr[t].pre.err = NoErr) =>
            /\ R(t).stderr = fr[t].pre.stderr
            /\ Exited(t) => R(t).stdout = fr[t].pre.stdout

C1_Witness ==
    \E t \in Threads :
        /\ fr[t].op = "Output" /\ fr[t].status = "panicked" /\ fr[t].opened > 0
        /\ fr[t].pre.stdout = "w1" /\ R(t).stdout = "w1"

\* C2: once SmartOutput() on a specification without a deferred error has
\* exited (returned or panicked), rs.stdout and rs.stderr are the writers
\* they were before the call.
C2_SmartOutputRestoresSinks ==
    \A t \in Threads :
        (fr[t].op = "SmartOutput" /\ fr[t].pre.err = NoErr /\ Exited(t)) =>
            /\ R(t).stdout = fr[t].pre.stdout
            /\ R(t).stderr = fr[t].pre.stderr

C2_Witness ==
    \E t \in Threads :
        /\ fr[t].op = "SmartOutput" /\ fr[t].status = "returned"
        /\ fr[t].failed = 2 /\ fr[t].pre.stdout = "w1" /\ fr[t].pre.stderr = "w2"
        /\ R(t).stdout = "w1" /\ R(t).stderr = "w2"

\* C3: a session is closed once and no more; a caller that is not inside
\* a public operation holds no open session and has seen as many closes as
\* opens; a session that is open is the one open not yet matched by a close.
C3_SessionsClosed ==
    \A t \in Threads :
        /\ fr[t].closed <= fr[t].opened
        /\ fr[t].session = "open" => fr[t].opened = fr[t].closed + 1
        /\ fr[t].status # "running" =>
              fr[t].session # "open" /\ fr[t].opened = fr[t].closed

C3_Witness ==
    \E t \in Threads :
        /\ fr[t].op = "Run" /\ fr[t].status = "panicked"
        /\ fr[t].pre.scriptType = CommandLine
        /\ fr[t].opened = 2 /\ fr[t].closed = 2

\* C4: when Run() on a CommandLine specification has returned and the k-th
\* non-blank line was the first whose session.Run failed, Run() returned
\* that run's error, opened k sessions, and ran the first k non-blank lines
\* and no other.
C4_AbortOnFirstFailure ==
    \A t \in Threads :
        (/\ fr[t].op = "Run" /\ fr[t].status = "returned"
         /\ fr[t].pre.scriptType = CommandLine /\ fr[t].failed > 0) =>
            /\ fr[t].retErr = RunErr(fr[t].failed)
            /\ fr[t].opened = fr[t].failed
            /\ fr[t].failed <= Len(NonBlank(fr[t].pre.script))
            /\ fr[t].ran = SubSeq(NonBlank(fr[t].pre.script), 1, fr[t].failed)

C4_Witness ==
    \E t \in Threads :
        /\ fr[t].op = "Run" /\ fr[t].status = "returned"
        /\ fr[t].pre.scriptType = CommandLine /\ fr[t].failed = 1
        /\ Len(NonBlank(fr[t].pre.script)) = 2

\* C5: an execution on a specification whose deferred error is set never
\* opens a session, reads a file or panics, and it returns that error with
\* no bytes.
C5_DeferredErrorShortCircuit ==
    \A t \in Threads :
        (Executes(t) /\ fr[t].pre.err # NoErr) =>
            /\ fr[t].opened = 0 /\ fr[t].reads = 0 /\ fr[t].calls = <<>>
            /\ fr[t].status # "panicked"
            /\ fr[t].status = "returned" =>
                  fr[t].retErr = fr[t].pre.err /\ fr[t].retBytes = <<>>

C5_Witness ==
    \E t \in Threads :
        /\ fr[t].op = "Run" /\ fr[t].status = "returned"
        /\ fr[t].pre.scriptType = ScriptFile /\ fr[t].pre.err = PreErr
        /\ fr[t].retErr = PreErr

\* C6 as stated: once rs.err is set no step changes it.
C6_NeverChanges == [][\A o \in Specs : rs[o].err # NoErr => rs'[o].err = rs[o].err]_vars

\* C6 amended: once rs.err is set it stays set; the only step that puts
\* another value there is Cmd on a specification that is not CommandLine,
\* which stores a new append-not-supported error; and an execution returns
\* the deferred error set when it was called, with no transport call.
C6_NeverCleared ==
    /\ [][\A o \in Specs : rs[o].err # NoErr =>
            /\ rs'[o].err # NoErr
            /\ rs'[o].err # rs[o].err =>
                  /\ rs[o].scriptType # CommandLine
                  /\ \E t \in Threads : fr'[t].op = "Cmd" /\ Obj(t) = o
                  /\ rs'[o].err.msg = CmdErr(0).msg]_vars
    /\ [](\A t \in Threads :
            (Executes(t) /\ fr[t].pre.err # NoErr /\ fr[t].status = "returned") =>
                fr[t].retErr = fr[t].pre.err /\ fr[t].calls = <<>>)

C6_Witness ==
    \E t \in Threads :
        /\ fr[t].op = "Output" /\ fr[t].status = "returned"
        /\ fr[t].pre.err = CmdErr(2) /\ fr[t].retErr = CmdErr(2) /\ R(t).err = CmdErr(2)

\* C7: when an execution of a ScriptFile specification has returned, with
\* or without an error, scriptType is ScriptFile again and script and
\* scriptFile are what they were before the call.
C7_ScriptFileRestoredOnReturn ==
    \A t \in Threads :
        (Executes(t) /\ fr[t].status = "returned" /\ fr[t].pre.scriptType = ScriptFile) =>
            /\ R(t).scriptType = ScriptFile
            /\ R(t).script = fr[t].pre.script
            /\ R(t).scriptFile = fr[t].pre.scriptFile

C7_Witness ==
    \E t \in Threads :
        /\ fr[t].op = "Run" /\ fr[t].status = "returned"
        /\ fr[t].pre.scriptType = ScriptFile /\ fr[t].reads = 1 /\ fr[t].opened = 1
        /\ fr[t].retErr = WaitErr /\ R(t).scriptType = ScriptFile

\* C8: when an execution of a ScriptFile specification has exited, by a
\* return or by a panic, scriptType and script are what they were before
\* the call.
C8_ScriptFileRestoredOnPanic ==
    \A t \in Threads :
        (Executes(t) /\ Exited(t) /\ fr[t].pre.scriptType = ScriptFile) =>
            /\ R(t).scriptType = fr[t].pre.scriptType
            /\ R(t).script = fr[t].pre.script

\* C9: when Output() (or SmartOutput()) has returned right after an earlier
\* return of the same operation and the collaborators answered the second
\* call as they answered the first, the second call returned the bytes
\* and the error of the first, and the specification is what it was before
\* the first call.
C9_CaptureRepeatable ==
    \A t \in Threads :
        (/\ fr[t].op \in {"Output", "SmartOutput"} /\ fr[t].status = "returned"
         /\ fr[t].prev.valid /\ fr[t].prev.log = fr[t].log) =>
            /\ fr[t].retBytes = fr[t].prev.bytes
            /\ fr[t].retErr = fr[t].prev.err
            /\ R(t) = fr[t].prev.pre
            /\ fr[t].pre = fr[t].prev.pre

C9_Witness ==
    \E t \in Threads :
        /\ fr[t].op = "Output" /\ fr[t].status = "returned"
        /\ fr[t].prev.valid /\ fr[t].prev.log = fr[t].log
        /\ fr[t].opened = 2 /\ fr[t].retBytes = <<"o", "o">>
        /\ fr[t].prev.bytes = <<"o", "o">> /\ R(t).stdout = "w1"

C11_OutputEmptyOnFailure ==
    \A t \in Threads :
        (/\ fr[t].op = "Output" /\ fr[t].status = "returned"
         /\ fr[t].pre.err = NoErr /\ fr[t].err # NoErr) =>
            /\ fr[t].retErr = fr[t].err
            /\ fr[t].retBytes = <<>>

\* C12: when Cmd(line) has returned on a specification that was CommandLine,
\* the body is line if the body was empty and body, newline, line otherwise;
\* mode, sinks, deferred error, client and path are as before; no session
\* was opened, no file read and no transport call made.
C12_CmdAppends ==
    \A t \in Threads :
        (fr[t].op = "Cmd" /\ fr[t].pre.scriptType = CommandLine) =>
            /\ fr[t].status = "returned" /\ fr[t].retErr = NoErr
            /\ R(t).script = IF fr[t].pre.script = EmptyStr THEN fr[t].arg
                            ELSE fr[t].pre.script \o fr[t].arg
            /\ R(t) = [fr[t].pre EXCEPT !.script = R(t).script]
            /\ fr[t].opened = 0 /\ fr[t].reads = 0 /\ fr[t].calls = <<>>

\* Cmd(b) after Cmd(" a") on an empty body: the body is " a", newline, b
C12_Witness ==
    \E t \in Threads :
        /\ fr[t].op = "Cmd" /\ fr[t].status = "returned"
        /\ fr[t].pre.scriptType = CommandLine
        /\ fr[t].pre.script = << <<" ", "a">> >> /\ fr[t].arg = << <<"b">> >>
        /\ R(t).script = << <<" ", "a">>, <<"b">> >>

\* C13: when Cmd(line) has returned on a specification that was not
\* CommandLine, the body and every other field but the deferred error are as
\* before, the deferred error is an append-not-supported error, Cmd itself
\* reported no error and made no transport call; and an execution called
\* with that deferred error set returns it.
C13_CmdRejected ==
    \A t \in Threads :
        /\ (fr[t].op = "Cmd" /\ fr[t].pre.scriptType # CommandLine) =>
              /\ fr[t].status = "returned" /\ fr[t].retErr = NoErr
              /\ R(t).script = fr[t].pre.script
              /\ R(t).err # NoErr /\ R(t).err.msg = CmdErr(0).msg
              /\ R(t) = [fr[t].pre EXCEPT !.err = R(t).err]
              /\ fr[t].opened = 0 /\ fr[t].reads = 0 /\ fr[t].calls = <<>>
        /\ (/\ Executes(t) /\ fr[t].status = "returned"
            /\ fr[t].pre.err # NoErr /\ fr[t].pre.err.msg = CmdErr(0).msg) =>
              fr[t].retErr = fr[t].pre.err

C13_Witness ==
    \E t \in Threads :
        /\ fr[t].op = "Output" /\ fr[t].status = "returned"
        /\ fr[t].pre.scriptType = RawScript
        /\ fr[t].pre.err = CmdErr(1) /\ fr[t].retErr = CmdErr(1)

\* a body that holds nothing but spaces and newlines
Blank(s) == \A i \in 1..Len(s) : \A j \in 1..Len(s[i]) : s[i][j] = " "

KnownTypes == {CommandLine, RawScript, ScriptFile}

\* C15 as stated: Run() on a specification whose script type is none of the
\* three known ones does not panic, opens no session, leaves every field as
\* it was and returns an error that says "unsupported".
C15_UnknownTypeUnsupported ==
    \A t \in Threads :
        (fr[t].op = "Run" /\ fr[t].pre.scriptType \notin KnownTypes) =>
            /\ fr[t].status # "panicked"
            /\ fr[t].opened = 0 /\ fr[t].reads = 0 /\ fr[t].calls = <<>>
            /\ R(t) = fr[t].pre
            /\ fr[t].status = "returned" => fr[t].retErr.msg = "unsupported script type"

\* C15 amended: such a Run() does not panic, opens no session and leaves
\* every field as it was; it returns the unsupported-type error when no
\* deferred error was set and the deferred error otherwise.
C15_UnknownTypeRejected ==
    \A t \in Threads :
        (fr[t].op = "Run" /\ fr[t].pre.scriptType \notin KnownTypes) =>
            /\ fr[t].status # "panicked"
            /\ fr[t].opened = 0 /\ fr[t].reads = 0 /\ fr[t].calls = <<>>
            /\ R(t) = fr[t].pre
            /\ fr[t].status = "returned" =>
                  IF fr[t].pre.err = NoErr
                  THEN fr[t].retErr.msg = "unsupported script type"
                  ELSE fr[t].retErr = fr[t].pre.err

C15_Witness ==
    \E t \in Threads :
        /\ fr[t].op = "Run" /\ fr[t].status = "returned"
        /\ fr[t].pre.scriptType = BadType /\ fr[t].pre.err = NoErr
        /\ fr[t].pre.client = "nil" /\ fr[t].pre.script # EmptyStr
        /\ fr[t].retErr = UnsupportedErr

\* C16 as stated: Run() on a ScriptFile specification whose file cannot be
\* read does not panic, opens no session, keeps script type and body, and
\* returns the error of the failed os.Open or io.Copy itself.
C16_UnreadableFileReadError ==
    \A t \in Threads :
        (/\ fr[t].op = "Run" /\ fr[t].pre.scriptType = ScriptFile
         /\ fr[t].pre.scriptFile \in {MissingPath, BrokenPath}) =>
            /\ fr[t].status # "panicked"
            /\ fr[t].opened = 0 /\ fr[t].calls = <<>>
            /\ R(t).scriptType = fr[t].pre.scriptType /\ R(t).script = fr[t].pre.script
            /\ fr[t].status = "returned" =>
                  fr[t].retErr = IF fr[t].pre.scriptFile = MissingPath
                                 THEN NotFoundErr ELSE CopyErr

\* C16 amended: such a Run() does not panic, opens no session and keeps
\* script type and body; it returns the read error itself when no deferred
\* error was set, and the deferred error, without reading, otherwise.
C16_UnreadableFileNoSession ==
    \A t \in Threads :
        (/\ fr[t].op = "Run" /\ fr[t].pre.scriptType = ScriptFile
         /\ fr[t].pre.scriptFile \in {MissingPath, BrokenPath}) =>
            /\ fr[t].status # "panicked"
            /\ fr[t].opened = 0 /\ fr[t].calls = <<>>
            /\ R(t).scriptType = fr[t].pre.scriptType /\ R(t).script = fr[t].pre.script
            /\ fr[t].status = "returned" =>
                  IF fr[t].pre.err # NoErr
                  THEN fr[t].retErr = fr[t].pre.err /\ fr[t].reads = 0
                  ELSE /\ fr[t].reads = 1
                       /\ fr[t].retErr = IF fr[t].pre.scriptFile = MissingPath
                                          THEN NotFoundErr ELSE CopyErr

C16_Witness ==
    \E t \in Threads :
        /\ fr[t].op = "Run" /\ fr[t].status = "returned"
        /\ fr[t].pre.scriptType = ScriptFile /\ fr[t].pre.scriptFile = MissingPath
        /\ fr[t].pre.err = NoErr /\ fr[t].pre.client = "nil"
        /\ fr[t].reads = 1 /\ fr[t].retErr = NotFoundErr

\* C17: when SetStdio(x, y) has returned, rs.stdout is x and rs.stderr is y,
\* nil included; every other field is as before; no session was opened, no
\* file read and no transport call made.  And a session that a plain Run()
\* has open is bound to the writers the specification held when Run() was
\* called, which are those of the last SetStdio.
C17_SetStdioExact ==
    \A t \in Threads :
        /\ fr[t].op = "SetStdio" =>
              /\ fr[t].status = "returned" /\ fr[t].retErr = NoErr
              /\ R(t).stdout = fr[t].argOut /\ R(t).stderr = fr[t].argErr
              /\ R(t) = [fr[t].pre EXCEPT !.stdout = fr[t].argOut, !.stderr = fr[t].argErr]
              /\ fr[t].opened = 0 /\ fr[t].reads = 0 /\ fr[t].calls = <<>>
        /\ (fr[t].op = "Run" /\ fr[t].session = "open") =>
              /\ fr[t].sessStdout = fr[t].pre.stdout
              /\ fr[t].sessStderr = fr[t].pre.stderr
              /\ R(t).stdout = fr[t].pre.stdout /\ R(t).stderr = fr[t].pre.stderr

\* SetStdio(nil, w2) replacing (w1, nil)
C17_Witness ==
    \E t \in Threads :
        /\ fr[t].op = "SetStdio" /\ fr[t].status = "returned"
        /\ fr[t].pre.stdout = "w1" /\ fr[t].pre.stderr = NilW
        /\ fr[t].argOut = NilW /\ fr[t].argErr = "w2"
        /\ R(t).stdout = NilW /\ R(t).stderr = "w2"

\* C18: in every state of an Output() or SmartOutput() called with a deferred
\* error set, the call has already returned, rs.stdout and rs.stderr are the
\* writers they were at the call, no private buffer was written and nothing
\* reached a caller's writer: the sinks are not reassigned even for a step.
C18_EarlyReturnKeepsSinks ==
    \A t \in Threads :
        (fr[t].op \in {"Output", "SmartOutput"} /\ fr[t].pre.err # NoErr) =>
            /\ fr[t].status = "returned"
            /\ R(t) = fr[t].pre
            /\ fr[t].retBytes = <<>> /\ fr[t].retErr = fr[t].pre.err
            /\ \A w \in RealWriters : content[w] = <<>>

\* SmartOutput() short-circuited on a specification bound to (w1, w2)
C18_Witness ==
    \E t \in Threads :
        /\ fr[t].op = "SmartOutput" /\ fr[t].status = "returned"
        /\ fr[t].pre.err # NoErr
        /\ fr[t].pre.stdout = "w1" /\ fr[t].pre.stderr = "w2"
        /\ R(t).stdout = "w1" /\ R(t).stderr = "w2"

\* C20: whenever a call of Run, Output, SmartOutput, SetStdio or Cmd has
\* returned, the script type is the one the specification had when the call
\* was made; so over any sequence of returning calls it stays the type the
\* specification was created with.
C20_ScriptTypeFixed ==
    \A t \in Threads :
        (/\ fr[t].op \in {"Run", "Output", "SmartOutput", "SetStdio", "Cmd"}
         /\ fr[t].status = "returned") =>
            R(t).scriptType = fr[t].pre.scriptType

\* a returned Output() of a ScriptFile specification that ran the file's
\* content as a raw script in between
C20_Witness ==
    \E t \in Threads :
        /\ fr[t].op = "Output" /\ fr[t].status = "returned"
        /\ fr[t].pre.scriptType = ScriptFile /\ fr[t].opened = 1
        /\ fr[t].calls # <<>> /\ R(t).scriptType = ScriptFile

\* what a returned call leaves and hands back, in terms of the caller's own
\* specification before the call, its own arguments and the answers its own
\* sessions and file read gave
OwnEffect(t) ==
    LET f == fr[t] IN
    f.status = "returned" =>
        CASE f.op = "SetStdio" -> R(t) = SetStdioFields(f.pre, f.argOut, f.argErr)
          [] f.op = "Cmd" ->
                IF f.pre.scriptType = CommandLine
                THEN R(t) = [f.pre EXCEPT !.script = IF f.pre.script = EmptyStr THEN f.arg
                                                     ELSE f.pre.script \o f.arg]
                ELSE /\ R(t).err.msg = CmdErr(0).msg
                     /\ R(t) = [f.pre EXCEPT !.err = R(t).err]
          [] f.op \in {"Run", "Output", "SmartOutput"} ->
                /\ R(t) = f.pre
                /\ f.retErr = IF f.pre.err # NoErr THEN f.pre.err ELSE f.err
                /\ f.retBytes = IF f.pre.err # NoErr \/ f.op = "Run" THEN <<>>
                                 ELSE IF f.op = "SmartOutput" /\ f.err # NoErr THEN f.emErr
                                 ELSE f.emOut
          [] OTHER -> TRUE

\* C19: with two callers each working on its own specification made from one
\* client, in any interleaving of their steps, a step of one caller leaves
\* the other caller's specification, frame and capture buffers as they
\* were, and every returned call's effect and result are determined by the
\* caller's own specification, arguments and session answers.
C19_Independent ==
    /\ [][\A t \in Threads :
            fr'[t] = fr[t] =>
                /\ rs'[Obj(t)] = rs[Obj(t)]
                /\ content'[PrivOut(t)] = content[PrivOut(t)]
                /\ content'[PrivErr(t)] = content[PrivErr(t)]]_vars
    /\ [](\A t \in Threads : OwnEffect(t))

\* two captures in flight at once, each with its session open
C19_Witness ==
    /\ made = "pair" /\ Obj(1) # Obj(2)
    /\ fr[1].op = "Output" /\ fr[1].status = "running" /\ fr[1].session = "open"
    /\ fr[2].op = "SmartOutput" /\ fr[2].status = "running" /\ fr[2].session = "open"
    /\ fr[1].emOut # <<>> /\ fr[2].emOut # <<>>

\* the answers the session gave to the calls of one Start(), call by call
Answered(f, call, oc) ==
    \E i \in 1..Len(f.calls) : f.calls[i] = call /\ f.log[i] = oc
AnyStepFailed(f) == \E i \in 1..Len(f.log) : f.log[i] = "err"

C22_StartSingleUse ==
    \A t \in Threads :
        (fr[t].op = "Start" /\ fr[t].started) =>
            fr[t].opened = 0 /\ fr[t].calls = <<>>

\* C23: when a shell specification asks for a pty and RequestPty returned an
\* error, Start() makes no session.Run, session.Shell or session.Wait call
\* on that session, and once it has returned it has returned that error
\* itself and the session is closed.
C23_PtyFailureAborts ==
    \A t \in Threads :
        (/\ fr[t].op = "Start" /\ fr[t].preSh.requestPty
         /\ Answered(fr[t], "RequestPty", "err")) =>
            /\ fr[t].calls \in {<<"NewSession", "RequestPty">>,
                              <<"NewSession", "RequestPty", "Close">>}
            /\ fr[t].ran = <<>>
            /\ fr[t].status # "panicked"
            /\ fr[t].status = "returned" =>
                  /\ fr[t].retErr = PtyErr
                  /\ fr[t].session = "closed"
                  /\ fr[t].calls = <<"NewSession", "RequestPty", "Close">>

\* Start("b") whose pty request failed: the command was not run
C23_Witness ==
    \E t \in Threads :
        /\ fr[t].op = "Start" /\ fr[t].status = "returned"
        /\ fr[t].preSh.requestPty /\ fr[t].cmd # EmptyStr
        /\ Answered(fr[t], "RequestPty", "err")
        /\ fr[t].retErr = PtyErr /\ fr[t].session = "closed"

\* the error a failed step of Start() hands back
StepErr(call) ==
    CASE call = "NewSession" -> SessionErr
      [] call = "RequestPty" -> PtyErr
      [] call = "Shell" -> ShellErr
      [] call = "Wait" -> WaitErr
      [] OTHER -> NoErr

ClientOtherOps == {"Command", "Script", "ScriptFile", "Shell", "InteractiveShell",
                   "FileSystem", "Status"}

\* C24: a client is Connected until Close() is first called and Disconnected
\* in every state after that, whatever the closes answered; Close() on a
\* Disconnected client returns nil and closes nothing; a step changes the
\* status only if it is a Close(), and every other client operation leaves
\* the status it found.
C24_StatusLifecycle ==
    /\ [](/\ cl.status = (IF cl.everClosed THEN StatusDisconnected ELSE StatusConnected)
          /\ (cl.op = "Close" /\ cl.pre.status = StatusDisconnected) =>
                (cl.ret = NoErr /\ cl.calls = <<>>)
          /\ cl.op \in ClientOtherOps => cl.status = cl.pre.status)
    /\ [][cl'.status # cl.status => (cl'.op = "Close" /\ ~cl.everClosed)]_vars

C24_Witness ==
    /\ cl.op = "Close" /\ cl.pre.status = StatusDisconnected
    /\ cl.pre.sftpClient = "sftp" /\ cl.pre.sshClient = "conn"
    /\ cl.sftpCloses = 1 /\ cl.sshCloses = 1
    /\ cl.ret = NoErr /\ cl.status = StatusDisconnected

\* the failures among the closes a Close() made, in the order they were made
RECURSIVE Failures(_, _, _)
Failures(calls, answers, i) ==
    IF i > Len(calls) THEN <<>>
    ELSE (IF answers[i] = "err" THEN <<CloseErr(calls[i])>> ELSE <<>>)
            \o Failures(calls, answers, i + 1)

\* C25: a Close() that found the client Connected has closed the SFTP client
\* if there was one and then the SSH connection if there was one, whatever
\* the first close answered; it returned nil exactly when every close it
\* made answered without error, and otherwise an error that carries every
\* failed close's error, in the order of the closes.
C25_CloseAttemptsAll ==
    (cl.op = "Close" /\ cl.pre.status = StatusConnected) =>
        /\ cl.calls = (IF cl.pre.sftpClient # "nil" THEN <<"sftpClient.Close">> ELSE <<>>)
                        \o (IF cl.pre.sshClient # "nil" THEN <<"sshClient.Close">> ELSE <<>>)
        /\ Len(cl.answers) = Len(cl.calls)
        /\ (cl.ret = NoErr) <=> (\A i \in 1..Len(cl.answers) : cl.answers[i] = "ok")
        /\ cl.ret # NoErr =>
              /\ cl.ret.msg = "multierror"
              /\ cl.ret.Errors = Failures(cl.calls, cl.answers, 1)

C25_Witness ==
    /\ cl.op = "Close" /\ cl.pre.status = StatusConnected
    /\ cl.calls = <<"sftpClient.Close", "sshClient.Close">>
    /\ cl.answers = <<"err", "err">>
    /\ cl.ret # NoErr /\ cl.ret.Errors = <<SftpCloseErr, SshCloseErr>>

\* C26: the last operation on a handle that carried a stored error, whichever
\* of the fifteen it was, returned exactly that error and nil data and made
\* no SFTP or local file call; an operation on such a handle leaves the
\* client as it was, and the stored error stays.
C26_StoredErrorShortCircuits ==
    /\ []((rfs.exists /\ rfs.op \in RfsOps /\ rfs.preErr # NoErr) =>
            /\ rfs.ret = rfs.preErr
            /\ rfs.data = "nil"
            /\ rfs.calls = <<>>
            /\ rfs.err = rfs.preErr)
    /\ [][(rfs.exists /\ rfs.err # NoErr /\ RfsCall) =>
            (cl' = cl /\ rfs'.err = rfs.err)]_vars

C26_Witness ==
    /\ rfs.exists /\ rfs.op = "ReadFile"
    /\ rfs.preErr = NewClientErr /\ rfs.sftp = "nil"
    /\ rfs.ret = NewClientErr /\ rfs.data = "nil" /\ rfs.calls = <<>>

\* t is line l without its leading and trailing spaces, and is not empty
IsTrimOf(t, l) ==
    /\ t # <<>> /\ t[1] # " " /\ t[Len(t)] # " "
    /\ \E a \in 0..Len(l) :
          /\ a + Len(t) <= Len(l)
          /\ SubSeq(l, a + 1, a + Len(t)) = t
          /\ \A j \in 1..Len(l) : (j <= a \/ j > a + Len(t)) => l[j] = " "

\* the lines of a body that hold something else than spaces
FullLines(body) == {i \in 1..Len(body) : \E j \in 1..Len(body[i]) : body[i][j] # " "}

\* ran is the full lines of body, trimmed, once each and in body order
RanEveryLine(ran, body) ==
    /\ Len(ran) = Cardinality(FullLines(body))
    /\ \A i \in FullLines(body) :
          IsTrimOf(ran[Cardinality({j \in FullLines(body) : j <= i})], body[i])

\* one session per line, each closed before the next is opened, each given
\* the sinks the specification had
SessionPerLine(f) ==
    /\ Len(f.calls) = 3 * Len(f.ran)
    /\ \A i \in 1..Len(f.calls) :
          f.calls[i] = <<"NewSession", "Run", "Close">>[((i - 1) % 3) + 1]
    /\ f.opened = Len(f.ran) /\ f.closed = Len(f.ran)
    /\ Len(f.bound) = Len(f.ran)
    /\ \A k \in 1..Len(f.bound) :
          f.bound[k].stdout = f.pre.stdout /\ f.bound[k].stderr = f.pre.stderr

\* a NewSession of the call did not yield a session
OpenFailed(f) == CountOf(f.calls, "NewSession") > f.opened

WaitResult(b) == IF b.res = "err" THEN WaitErr ELSE NoErr

\* the session calls of one runScript, the session given the body as stdin
\* and the two sinks; Shell before Wait, no Wait after a failed Shell, and
\* the error of Shell, else the result of Wait, as the result of Run()
ScriptSession(f, body) ==
    /\ f.opened = 1
    /\ f.bound = << [stdin |-> body, stdout |-> f.pre.stdout, stderr |-> f.pre.stderr] >>
    /\ f.calls \in {<<"NewSession", "Shell", "Wait", "Close">>,
                    <<"NewSession", "Shell", "Close">>}
    /\ Answered(f, "Shell", "err") <=> f.calls = <<"NewSession", "Shell", "Close">>
    /\ Answered(f, "Shell", "err") => f.retErr = ShellErr
    /\ Answered(f, "Shell", "ok") => f.retErr = WaitResult(f.log[3])

Answers(f) == IF f.reads > 0 THEN Tail(f.log) ELSE f.log

\* the session calls of a Run() with the streams each session was given
Transport(f) == [calls |-> f.calls, bound |-> f.bound]

\* C29: when Run() has returned on a ScriptFile specification whose file is
\* readable and on a RawScript specification whose body is the file's
\* content, the two having the same stdout, stderr and deferred error, and
\* the sessions answered the two runs alike, then the two runs made the same
\* session calls with the same streams (stdin the content) and returned the
\* same error.
C29_FileRunEqualsScriptRun ==
    (/\ fr[1].op = "Run" /\ fr[1].status = "returned"
     /\ fr[2].op = "Run" /\ fr[2].status = "returned"
     /\ fr[1].pre.scriptType = ScriptFile /\ fr[2].pre.scriptType = RawScript
     /\ ReadFile(fr[1].pre.scriptFile).err = NoErr
     /\ fr[2].pre.script \in ReadFile(fr[1].pre.scriptFile).data
     /\ fr[1].pre.stdout = fr[2].pre.stdout /\ fr[1].pre.stderr = fr[2].pre.stderr
     /\ fr[1].pre.err = fr[2].pre.err
     /\ Len(Answers(fr[1])) = Len(Answers(fr[2]))
     /\ Answers(fr[1]) = Answers(fr[2])) =>
        /\ Transport(fr[1]) = Transport(fr[2])
        /\ fr[1].retErr = fr[2].retErr
        /\ fr[1].reads > 0 => fr[1].log[1] = fr[2].pre.script

C29_Witness ==
    /\ fr[1].op = "Run" /\ fr[1].status = "returned"
    /\ fr[2].op = "Run" /\ fr[2].status = "returned"
    /\ fr[1].pre.scriptType = ScriptFile /\ fr[2].pre.scriptType = RawScript
    /\ fr[1].pre.stdout = "w1" /\ fr[2].pre.stdout = "w1"
    /\ fr[1].calls = <<"NewSession", "Shell", "Wait", "Close">>
    /\ fr[2].calls = <<"NewSession", "Shell", "Wait", "Close">>
    /\ fr[1].bound[1].stdin = fr[2].pre.script
    /\ fr[1].retErr = WaitErr /\ fr[2].retErr = WaitErr

\* a NewSession of the call returned an error (and did not panic)
OpenReturnedError(f) == OpenFailed(f) /\ ~f.panicking /\ f.status # "panicked"

\* C30: once a NewSession has returned an error during Run() or Start(), it
\* is the last session call of the operation (no Run, Shell, Wait, RequestPty
\* or further NewSession follows, and no later line is executed: each line
\* that ran did so in a session opened before); the operation returns that
\* error as it is. A Start() has made no other call at all.
C30_OpenFailureEndsOperation ==
    \A t \in Threads :
        (fr[t].op \in {"Run", "Start"} /\ OpenReturnedError(fr[t])) =>
            /\ fr[t].calls[Len(fr[t].calls)] = "NewSession"
            /\ CountOf(fr[t].calls, "NewSession") = fr[t].opened + 1
            /\ Len(fr[t].ran) = fr[t].opened /\ fr[t].closed = fr[t].opened
            /\ fr[t].pre.scriptType # CommandLine => fr[t].calls = <<"NewSession">>
            /\ fr[t].op = "Start" => fr[t].calls = <<"NewSession">>
            /\ fr[t].err = SessionErr
            /\ fr[t].status = "returned" => fr[t].retErr = SessionErr

C30_Witness ==
    /\ fr[1].op = "Run" /\ fr[1].status = "returned"
    /\ fr[1].pre.scriptType = CommandLine
    /\ Cardinality(FullLines(fr[1].pre.script)) = 2
    /\ fr[1].calls = <<"NewSession", "Run", "Close", "NewSession">>
    /\ Len(fr[1].ran) = 1
    /\ fr[1].retErr = SessionErr

IsPrefix(p, q) == Len(p) <= Len(q) /\ SubSeq(q, 1, Len(p)) = p

\* the session calls of a Start(command) on shell s that runs to the end,
\* without the closing Close
StartOrder(s, command) ==
    <<"NewSession">>
        \o (IF s.requestPty THEN <<"RequestPty">> ELSE <<>>)
        \o (IF command # EmptyStr THEN <<"Run">> ELSE <<>>)
        \o <<"Shell", "Wait">>

BoundTo(field, std) == IF field = NilW THEN std ELSE field

\* C32: a session that Start() opened has as stdin, stdout and stderr, each
\* on its own, the shell's field of that name when it is not nil and
\* os.Stdin, os.Stdout, os.Stderr otherwise; a SetStdio of the shell has
\* assigned its three arguments (nil or not) to the three fields, left the
\* other fields as they were and made no session call.
C32_ShellStreams ==
    \A t \in Threads :
        /\ (fr[t].op = "Start" /\ fr[t].opened = 1) =>
              /\ fr[t].sessStdin = BoundTo(fr[t].preSh.stdin, OsStdin)
              /\ fr[t].sessStdout = BoundTo(fr[t].preSh.stdout, OsStdout)
              /\ fr[t].sessStderr = BoundTo(fr[t].preSh.stderr, OsStderr)
        /\ fr[t].op = "ShellSetStdio" =>
              /\ sh = [fr[t].preSh EXCEPT !.stdin = fr[t].argIn, !.stdout = fr[t].argOut,
                                          !.stderr = fr[t].argErr]
              /\ fr[t].status = "returned"
              /\ fr[t].calls = <<>> /\ fr[t].opened = 0 /\ fr[t].closed = 0

C32_Witness ==
    /\ fr[1].op = "Start" /\ fr[1].opened = 1
    /\ fr[1].preSh.stdin = NilW /\ fr[1].preSh.stdout = "w1" /\ fr[1].preSh.stderr = NilW
    /\ fr[1].sessStdin = OsStdin /\ fr[1].sessStdout = "w1" /\ fr[1].sessStderr = OsStderr

\* C33: the pty request of a Start() carries the Term, Height, Width and
\* Modes of the shell's terminalConfig when the shell has one, and xterm,
\* height 40, width 80 and no modes when it has none; a shell made by
\* InteractiveShell(nil), which holds DefaultTerminalConfig, requests exactly
\* xterm, 40, 80 and no modes.
C33_PtyParameters ==
    \A t \in Threads :
        (fr[t].op = "Start" /\ CountOf(fr[t].calls, "RequestPty") = 1) =>
            LET tc == fr[t].preSh.terminalConfig IN
            /\ ~tc.isNil => fr[t].pty = [term |-> tc.Term, h |-> tc.Height,
                                         w |-> tc.Width, modes |-> tc.Modes]
            /\ (tc.isNil \/ tc = DefaultTerminalConfig) =>
                  fr[t].pty = [term |-> "xterm", h |-> 40, w |-> 80, modes |-> {}]

C33_Witness ==
    /\ fr[1].op = "Start" /\ fr[1].status = "returned"
    /\ CountOf(fr[1].calls, "RequestPty") = 1
    /\ fr[1].preSh.terminalConfig = CustomConfig
    /\ fr[1].pty = [term |-> "vt100", h |-> 30, w |-> 100, modes |-> {"ECHO"}]

\* the value the last option for a field assigned, or the zero value
LastAssigned(opts, field, zero) ==
    LET I == {i \in 1..Len(opts) : opts[i].field = field}
    IN  IF I = {} THEN zero
        ELSE opts[CHOOSE i \in I : \A j \in I : j <= i].val

Capturing(t, o) == fr[t].op = o /\ fr[t].pre.err = NoErr

\* C35 as stated: in an Output() the run's stdout is in the private buffer and
\* nowhere else, its stderr in the caller's stderr writer, and the caller's
\* stdout writer has received nothing; in a SmartOutput() both are in the
\* private buffers and the caller's two writers have received nothing.
C35_CaptureBypassesSinks ==
    \A t \in Threads :
        /\ Capturing(t, "Output") =>
              /\ content[PrivOut(t)] = fr[t].emOut
              /\ fr[t].pre.stderr \in CallerWriters => content[fr[t].pre.stderr] = fr[t].emErr
              /\ fr[t].pre.stdout \in CallerWriters => content[fr[t].pre.stdout] = <<>>
        /\ Capturing(t, "SmartOutput") =>
              /\ content[PrivOut(t)] = fr[t].emOut /\ content[PrivErr(t)] = fr[t].emErr
              /\ \A w \in CallerWriters : content[w] = <<>>

\* C35: in an Output() the run's stdout is in the private buffer, its stderr
\* in the caller's stderr writer, and every other writer of the caller,
\* the stdout writer included unless it is the stderr writer too, has
\* received nothing; in a SmartOutput() both are in the private buffers and
\* no writer of the caller has received anything.
C35_CaptureBypassesOtherSinks ==
    \A t \in Threads :
        /\ Capturing(t, "Output") =>
              /\ content[PrivOut(t)] = fr[t].emOut
              /\ \A w \in CallerWriters :
                    content[w] = IF w = fr[t].pre.stderr THEN fr[t].emErr ELSE <<>>
        /\ Capturing(t, "SmartOutput") =>
              /\ content[PrivOut(t)] = fr[t].emOut /\ content[PrivErr(t)] = fr[t].emErr
              /\ \A w \in CallerWriters : content[w] = <<>>

C35_Witness ==
    /\ Capturing(1, "Output") /\ fr[1].status = "returned"
    /\ fr[1].pre.stdout = "w1" /\ fr[1].pre.stderr = "w2"
    /\ fr[1].emOut # <<>> /\ fr[1].emErr # <<>>
    /\ content["w1"] = <<>> /\ content["w2"] = fr[1].emErr
    /\ content[PrivOut(1)] = fr[1].emOut

\* the sessions a call has opened and not yet closed
OpenSessions(f) == f.opened - f.closed

\* C36: with the calls on a specification made one after the other, a Run(),
\* Output() or SmartOutput() has at every moment at most one session that it
\* opened and has not closed, and none when it has returned or panicked; so
\* no session of an earlier call is open when a later call opens one.
C36_OneOpenSession ==
    \A t \in Threads :
        Executes(t) =>
            /\ OpenSessions(fr[t]) \in {0, 1}
            /\ OpenSessions(fr[t]) = 1 <=> fr[t].session = "open"
            /\ Exited(t) => OpenSessions(fr[t]) = 0

C36_Witness ==
    /\ fr[1].op = "Run" /\ fr[1].status = "running"
    /\ fr[1].pre.scriptType = CommandLine
    /\ fr[1].opened = 2 /\ fr[1].closed = 1 /\ fr[1].session = "open"

\* both callers have made their call and neither is inside it
BothDone == \A t \in Threads : fr[t].op # "none" /\ Exited(t)

\* one of the two calls began while the other was running
Overlapped == \E t \in Threads : fr[t].concurrent

\* C37: when the two calls on the one specification did not overlap, stdout
\* ends as serial use leaves it: the writer given to SetStdio if one call was
\* a SetStdio, and the writer it was before the calls if both were Output();
\* only overlapping calls can leave it otherwise (the witness: two
\* overlapping Output() calls that leave stdout bound to a private buffer).
C37_SerialCallsRestore ==
    (BothDone /\ ~Overlapped) =>
        /\ fr[2].op = "SetStdio" => rs[1].stdout = fr[2].argOut
        /\ fr[2].op = "Output" =>
              /\ rs[1].stdout = fr[1].pre.stdout
              /\ rs[1].stdout = fr[2].pre.stdout

C37_Witness ==
    /\ BothDone /\ Overlapped
    /\ fr[1].op = "Output" /\ fr[2].op = "Output"
    /\ fr[1].status = "returned" /\ fr[2].status = "returned"
    /\ rs[1].stdout \in PrivWriters
    /\ rs[1].stdout # fr[1].pre.stdout
    /\ fr[1].pre.stdout = "w1"

\* the initial command of the Start() has returned, with or without error
CommandReturned(f) == Answered(f, "Run", "ok") \/ Answered(f, "Run", "err")

C39_OneSftpClient ==
    /\ cl.sftpMade <= 1
    /\ cl.sftpMade = 1 <=> cl.sftpClient # "nil"
    /\ (cl.op = "FileSystem" /\ cl.pre.sshClient # "nil") =>
          IF cl.pre.sftpClient # "nil"
          THEN /\ cl.calls = <<>>
               /\ cl.sftpClient = cl.pre.sftpClient
               /\ rfs.sftp = cl.pre.sftpClient /\ rfs.err = NoErr
          ELSE /\ cl.calls = <<"sftp.NewClient">>
               /\ cl.answers = <<"ok">> =>
                     /\ cl.sftpClient # "nil"
                     /\ rfs.sftp = cl.sftpClient /\ rfs.err = NoErr
               /\ cl.answers = <<"err">> =>
                     /\ cl.sftpClient = "nil"
                     /\ rfs.sftp = "nil" /\ rfs.err = NewClientErr

C39_Witness ==
    /\ cl.op = "FileSystem" /\ cl.pre.sshClient = "conn"
    /\ cl.pre.sftpClient = "sftp" /\ cl.calls = <<>>
    /\ rfs.sftp = "sftp" /\ rfs.op = "none"
    /\ cl.sftpMade = 1

\* C40: the shared SFTP client has been closed at most once, and a handle
\* that FileSystem() has just returned after some handle's Close() closed
\* the SFTP client does not refer to that client.
C40_SftpClosedOnce ==
    /\ cl.sftpCloses <= 1
    /\ (rfs.exists /\ rfs.op = "none" /\ cl.handleClosed) => rfs.sftp = "nil"
====
